---- MODULE Spec2Model ----
(***************************************************************************)
(* State-machine model of the VPN management API (src/src/index.js): the   *)
(* in-memory store `data` and the HTTP handlers that read or mutate it.    *)
(* Each action is one request handled to completion (single-threaded       *)
(* event loop); req/resp record the request handled last and its reply.    *)
(***************************************************************************)
EXTENDS Integers, Sequences, FiniteSets, TLC

VARIABLES servers, rules, profiles, connection, history, req, resp

vars == <<servers, rules, profiles, connection, history, req, resp>>

\* ---------------------------------------------------------------- bounds
\* The arrays of the store grow without limit; the model stops creating
\* servers and rules, and prepending history entries, at these lengths.
MaxServers == 4
MaxRules == 2
MaxHist == 2

\* ------------------------------------------------------- JavaScript values
Undefined == "undefined"
Null == "null"
DefaultLimit == 20

\* Strings generateId() may return (a draw from Math.random, so any value,
\* including one drawn before).
GenIds == {"g1", "g2"}

\* Values of new Date().toISOString(): opaque strings that are stored and
\* returned, and that no route reads back.
Times == {"t1"}

\* ------------------------------------------------------- helper operators
\* r.f in JavaScript: a missing property reads as undefined.
Field(r, f) == IF f \in DOMAIN r THEN r[f] ELSE Undefined

\* Mutant of Spread: fields already present win over the body's.
SpreadKeep(a, b) ==
  [f \in (DOMAIN a) \cup (DOMAIN b) |-> IF f \in DOMAIN a THEN a[f] ELSE b[f]]

\* { ...a, ...b }
Spread(a, b) ==
  [f \in (DOMAIN a) \cup (DOMAIN b) |-> IF f \in DOMAIN b THEN b[f] ELSE a[f]]

Min(a, b) == IF a < b THEN a ELSE b
Max(a, b) == IF a > b THEN a ELSE b

\* Mutant of FindIndex: the last match instead of the first.
FindLastIndex(arr, id) ==
  IF \E i \in 1..Len(arr) : arr[i].id = id
  THEN CHOOSE i \in 1..Len(arr) :
         /\ arr[i].id = id
         /\ \A j \in (i + 1)..Len(arr) : arr[j].id # id
  ELSE 0

\* Array.prototype.findIndex(x => x.id === id), 1-based; 0 when none.
FindIndex(arr, id) ==
  IF \E i \in 1..Len(arr) : arr[i].id = id
  THEN CHOOSE i \in 1..Len(arr) :
         /\ arr[i].id = id
         /\ \A j \in 1..(i - 1) : arr[j].id # id
  ELSE 0

\* Mutant of FilterOut: the predicate inverted.
FilterIn(arr, id) == SelectSeq(arr, LAMBDA x : x.id = id)

\* Array.prototype.filter(x => x.id !== id)
FilterOut(arr, id) == SelectSeq(arr, LAMBDA x : x.id # id)

\* Mutant of Unshift: push at the end.
Push(arr, e) == Append(arr, e)

\* Array.prototype.unshift(e)
Unshift(arr, e) == <<e>> \o arr

\* Array.prototype.slice(0, end)
Slice0(arr, end) ==
  LET k == IF end < 0 THEN Max(Len(arr) + end, 0) ELSE Min(end, Len(arr))
  IN  SubSeq(arr, 1, k)

\* parseInt(req.query.limit) || 20 : NaN (no parameter) and 0 are falsy.
ParseLimit(q) == IF q = <<>> \/ q[1] = 0 THEN DefaultLimit ELSE q[1]

Disconnected ==
  [connected |-> FALSE, serverId |-> Null, connectedAt |-> Null,
   stats |-> [bytesIn |-> 0, bytesOut |-> 0]]

\* An empty JSON object {} (an absent or empty request body).
EmptyBody == [f \in {} |-> Undefined]

\* ------------------------------------------------------------------ Init
InitServers ==
  << [id |-> "1", name |-> "US Server 1", host |-> "us1.vpn.com", port |-> 1194,
      protocol |-> "OpenVPN", country |-> "US", status |-> "online"],
     [id |-> "2", name |-> "UK Server 1", host |-> "uk1.vpn.com", port |-> 51820,
      protocol |-> "WireGuard", country |-> "UK", status |-> "online"],
     [id |-> "3", name |-> "Japan Server 1", host |-> "jp1.vpn.com", port |-> 500,
      protocol |-> "IKEv2", country |-> "JP", status |-> "online"],
     [id |-> "4", name |-> "Germany Server 1", host |-> "de1.vpn.com", port |-> 1194,
      protocol |-> "OpenVPN", country |-> "DE", status |-> "online"] >>

InitRules ==
  << [id |-> "1", name |-> "Netflix US", pattern |-> "*.netflix.com",
      serverId |-> "1", priority |-> 100, enabled |-> TRUE],
     [id |-> "2", name |-> "BBC UK", pattern |-> "*.bbc.co.uk",
      serverId |-> "2", priority |-> 90, enabled |-> TRUE] >>

InitProfiles ==
  << [id |-> "default", name |-> "Default", defaultServer |-> "1",
      killSwitch |-> FALSE, dns |-> "1.1.1.1"] >>

Init ==
  /\ servers = InitServers
  /\ rules = InitRules
  /\ profiles = InitProfiles
  /\ connection = Disconnected
  /\ history = <<>>
  /\ req = [op |-> "none"]
  /\ resp = [status |-> 0]

\* --------------------------------------------------------- server routes
GetServers ==
  /\ req' = [op |-> "getServers"]
  /\ resp' = [status |-> 200, data |-> servers]
  /\ UNCHANGED <<servers, rules, profiles, connection, history>>

GetServerResp(arr, id) ==
  LET i == FindIndex(arr, id)
  IN  IF i # 0 THEN [status |-> 200, data |-> arr[i]]
      ELSE [status |-> 404]

GetServer(id) ==
  /\ req' = [op |-> "getServer", id |-> id]
  /\ resp' = GetServerResp(servers, id)
  /\ UNCHANGED <<servers, rules, profiles, connection, history>>

\* Mutant of NewServer: the body spread last, over the status.
NewServerBodyLast(gid, body) ==
  Spread(Spread([id |-> gid], [status |-> "online"]), body)

\* { id: generateId(), ...req.body, status: 'online' }
NewServer(gid, body) ==
  Spread(Spread([id |-> gid], body), [status |-> "online"])

PostServer(gid, body) ==
  /\ Len(servers) < MaxServers
  /\ req' = [op |-> "postServer", body |-> body]
  /\ servers' = Append(servers, NewServer(gid, body))
  /\ resp' = [status |-> 201, data |-> NewServer(gid, body)]
  /\ UNCHANGED <<rules, profiles, connection, history>>

PutServer(id, body) ==
  /\ req' = [op |-> "putServer", id |-> id, body |-> body]
  /\ LET index == FindIndex(servers, id)
     IN  IF index # 0
         THEN /\ servers' = [servers EXCEPT ![index] = Spread(servers[index], body)]
              /\ resp' = [status |-> 200, data |-> servers'[index]]
         ELSE /\ servers' = servers
              /\ resp' = [status |-> 404]
  /\ UNCHANGED <<rules, profiles, connection, history>>

DeleteServer(id) ==
  /\ req' = [op |-> "deleteServer", id |-> id]
  /\ servers' = FilterOut(servers, id)
  /\ resp' = [status |-> 200]
  /\ UNCHANGED <<rules, profiles, connection, history>>

\* ----------------------------------------------------------- rule routes
GetRules ==
  /\ req' = [op |-> "getRules"]
  /\ resp' = [status |-> 200, data |-> rules]
  /\ UNCHANGED <<servers, rules, profiles, connection, history>>

\* { id: generateId(), ...req.body, enabled: true }
NewRule(gid, body) ==
  Spread(Spread([id |-> gid], body), [enabled |-> TRUE])

PostRule(gid, body) ==
  /\ Len(rules) < MaxRules
  /\ req' = [op |-> "postRule", body |-> body]
  /\ rules' = Append(rules, NewRule(gid, body))
  /\ resp' = [status |-> 201, data |-> NewRule(gid, body)]
  /\ UNCHANGED <<servers, profiles, connection, history>>

DeleteRule(id) ==
  /\ req' = [op |-> "deleteRule", id |-> id]
  /\ rules' = FilterOut(rules, id)
  /\ resp' = [status |-> 200]
  /\ UNCHANGED <<servers, profiles, connection, history>>

\* Mutant of ToggleRules: every rule with the id is flipped.
ToggleAllRules(arr, id) ==
  [i \in 1..Len(arr) |->
     IF arr[i].id = id THEN [arr[i] EXCEPT !.enabled = ~ arr[i].enabled]
     ELSE arr[i]]

\* rule = rules.find(...); if (rule) rule.enabled = !rule.enabled
ToggleRules(arr, id) ==
  LET i == FindIndex(arr, id)
  IN  IF i # 0 THEN [arr EXCEPT ![i].enabled = ~ arr[i].enabled] ELSE arr

ToggleRule(id) ==
  /\ req' = [op |-> "toggleRule", id |-> id]
  /\ rules' = ToggleRules(rules, id)
  /\ resp' = IF FindIndex(rules, id) # 0
             THEN [status |-> 200, data |-> rules'[FindIndex(rules, id)]]
             ELSE [status |-> 404]
  /\ UNCHANGED <<servers, profiles, connection, history>>

\* -------------------------------------------------------- profile routes
GetProfiles ==
  /\ req' = [op |-> "getProfiles"]
  /\ resp' = [status |-> 200, data |-> profiles]
  /\ UNCHANGED <<servers, rules, profiles, connection, history>>

GetActiveProfile ==
  /\ req' = [op |-> "getActiveProfile"]
  /\ resp' = [status |-> 200, data |-> profiles[1]]
  /\ UNCHANGED <<servers, rules, profiles, connection, history>>

\* ----------------------------------------------------- connection routes
GetConnection ==
  /\ req' = [op |-> "getConnection"]
  /\ resp' = [status |-> 200, data |-> connection]
  /\ UNCHANGED <<servers, rules, profiles, connection, history>>

\* Mutant of Connected: serverName taken from the id.
ConnectedNamedById(server, t) ==
  [connected |-> TRUE,
   serverId |-> server.id,
   serverName |-> server.id,
   connectedAt |-> t,
   stats |-> [bytesIn |-> 0, bytesOut |-> 0]]

\* The record connect builds for the server found.
Connected(server, t) ==
  [connected |-> TRUE,
   serverId |-> server.id,
   serverName |-> Field(server, "name"),
   connectedAt |-> t,
   stats |-> [bytesIn |-> 0, bytesOut |-> 0]]

HistoryEntry(hid, type, name, t) ==
  [id |-> hid, type |-> type, server |-> name, timestamp |-> t]

Connect(body, hid, t1, t2) ==
  LET serverId == Field(body, "serverId")
      i == FindIndex(servers, serverId)
  IN  /\ i # 0 => Len(history) < MaxHist
      /\ req' = [op |-> "connect", body |-> body]
      /\ IF i = 0
         THEN /\ resp' = [status |-> 404]
              /\ UNCHANGED <<connection, history>>
         ELSE /\ connection' = Connected(servers[i], t1)
              /\ history' = Unshift(history,
                   HistoryEntry(hid, "connect", Field(servers[i], "name"), t2))
              /\ resp' = [status |-> 200, data |-> connection']
      /\ UNCHANGED <<servers, rules, profiles>>

\* Mutant of Disconnect: the connection is reset before the entry is built,
\* so the entry reads serverName from the reset record.
DisconnectResetFirst(hid, t) ==
  /\ connection.connected => Len(history) < MaxHist
  /\ req' = [op |-> "disconnect"]
  /\ history' = IF connection.connected
                THEN Unshift(history,
                       HistoryEntry(hid, "disconnect",
                                    Field(Disconnected, "serverName"), t))
                ELSE history
  /\ connection' = Disconnected
  /\ resp' = [status |-> 200, data |-> connection']
  /\ UNCHANGED <<servers, rules, profiles>>

Disconnect(hid, t) ==
  /\ connection.connected => Len(history) < MaxHist
  /\ req' = [op |-> "disconnect"]
  /\ history' = IF connection.connected
                THEN Unshift(history,
                       HistoryEntry(hid, "disconnect",
                                    Field(connection, "serverName"), t))
                ELSE history
  /\ connection' = Disconnected
  /\ resp' = [status |-> 200, data |-> connection']
  /\ UNCHANGED <<servers, rules, profiles>>

\* -------------------------------------------------------- history routes
GetHistoryData(arr, q) == Slice0(arr, ParseLimit(q))

GetHistory(q) ==
  /\ req' = [op |-> "getHistory", limit |-> q]
  /\ resp' = [status |-> 200, data |-> GetHistoryData(history, q)]
  /\ UNCHANGED <<servers, rules, profiles, connection, history>>

ClearHistory ==
  /\ req' = [op |-> "clearHistory"]
  /\ history' = <<>>
  /\ resp' = [status |-> 200]
  /\ UNCHANGED <<servers, rules, profiles, connection>>

\* --------------------------------------------------------- status routes
GetStatus ==
  /\ req' = [op |-> "getStatus"]
  /\ resp' = [status |-> 200,
              data |-> [connection |-> connection,
                        servers |-> servers,
                        rules |-> rules,
                        profiles |-> profiles,
                        stats |-> [totalServers |-> Len(servers),
                                   activeRules |->
                                     Len(SelectSeq(rules, LAMBDA r : r.enabled)),
                                   historyCount |-> Len(history)]]]
  /\ UNCHANGED <<servers, rules, profiles, connection, history>>

GetHealth(t) ==
  /\ req' = [op |-> "getHealth"]
  /\ resp' = [status |-> 200, data |-> [status |-> "ok", timestamp |-> t]]
  /\ UNCHANGED <<servers, rules, profiles, connection, history>>

\* ------------------------------------------------------------- workloads
\* Spec: every route, called with one seeded id and one id no record has.
Ids == {"1", "zz"}
Rename == [name |-> "X"]

Next ==
  \/ GetServers
  \/ \E id \in Ids : GetServer(id)
  \/ \E gid \in GenIds : PostServer(gid, Rename)
  \/ \E id \in Ids : PutServer(id, Rename)
  \/ \E id \in Ids : DeleteServer(id)
  \/ GetRules
  \/ \E gid \in GenIds : PostRule(gid, [name |-> "R"])
  \/ \E id \in Ids : DeleteRule(id)
  \/ \E id \in Ids : ToggleRule(id)
  \/ GetProfiles
  \/ GetActiveProfile
  \/ GetConnection
  \/ \E id \in Ids, hid \in GenIds, t1 \in Times, t2 \in Times :
       Connect([serverId |-> id], hid, t1, t2)
  \/ \E hid \in GenIds, t \in Times : Disconnect(hid, t)
  \/ \E q \in {<<>>, <<1>>} : GetHistory(q)
  \/ ClearHistory
  \/ GetStatus
  \/ \E t \in Times : GetHealth(t)

Spec == Init /\ [][Next]_vars

\* SpecServers: the server routes alone, with ids that are seeded, generated
\* or unknown, and bodies that carry no field, a plain field, or the fields
\* the routes set themselves.
ServerIds == {"1", "2", "g1", "zz"}
ServerBodies ==
  { EmptyBody,
    [name |-> "X"],
    [id |-> "2", status |-> "offline"] }

NextServers ==
  \/ GetServers
  \/ \E id \in ServerIds : GetServer(id)
  \/ \E gid \in GenIds, body \in ServerBodies : PostServer(gid, body)
  \/ \E id \in ServerIds, body \in ServerBodies : PutServer(id, body)
  \/ \E id \in ServerIds : DeleteServer(id)

SpecServers == Init /\ [][NextServers]_vars

\* SpecRules: the rule routes alone.
RuleIds == {"1", "2", "g1", "zz"}
RuleBodies ==
  { [name |-> "R"],
    [id |-> "1", enabled |-> FALSE] }

NextRules ==
  \/ GetRules
  \/ \E gid \in GenIds, body \in RuleBodies : PostRule(gid, body)
  \/ \E id \in RuleIds : DeleteRule(id)
  \/ \E id \in RuleIds : ToggleRule(id)

SpecRules == Init /\ [][NextRules]_vars

\* SpecCollections: creation and deletion in both collections, with bodies
\* that carry an id of their own.
NextCollections ==
  \/ \E gid \in GenIds, body \in ServerBodies : PostServer(gid, body)
  \/ \E id \in ServerIds : DeleteServer(id)
  \/ \E gid \in GenIds, body \in RuleBodies : PostRule(gid, body)
  \/ \E id \in RuleIds : DeleteRule(id)

SpecCollections == Init /\ [][NextCollections]_vars

\* SpecConn: the connection and history routes, over a server collection in
\* which the connected server is renamed, deleted, duplicated (a second
\* record with id "1") or nameless.
ConnectBodies == { EmptyBody } \cup { [serverId |-> i] : i \in {"1", "g1", "zz"} }
LimitQueries == { <<>>, <<-1>>, <<0>>, <<1>>, <<2>> }

NextConn ==
  \/ \E gid \in GenIds, body \in {EmptyBody, [id |-> "1", name |-> "X"]} :
       PostServer(gid, body)
  \/ PutServer("1", [name |-> "Y"])
  \/ \E id \in {"1", "2"} : DeleteServer(id)
  \/ GetConnection
  \/ \E body \in ConnectBodies, hid \in GenIds, t1 \in Times, t2 \in Times :
       Connect(body, hid, t1, t2)
  \/ \E hid \in GenIds, t \in Times : Disconnect(hid, t)
  \/ \E q \in LimitQueries : GetHistory(q)
  \/ ClearHistory

SpecConn == Init /\ [][NextConn]_vars

\* ================================================================ claims
ZeroStats == [bytesIn |-> 0, bytesOut |-> 0]

\* history' is history with exactly one entry prepended.
Prepended(old, new) ==
  /\ Len(new) = Len(old) + 1
  /\ \A k \in 1..Len(old) : new[k + 1] = old[k]

\* i is the position of the first record of arr with the given id.
IsFirst(arr, id, i) ==
  /\ i \in 1..Len(arr)
  /\ arr[i].id = id
  /\ \A j \in 1..(i - 1) : arr[j].id # id

HasId(arr, id) == \E i \in 1..Len(arr) : arr[i].id = id

\* C1: a connect request for an id no server has answers 404 and leaves the
\* connection and the history unchanged; for an id some server has it
\* answers 200, the connection becomes connected to that (first matching)
\* server with its id and name and zeroed stats, and one 'connect' entry
\* naming the server is prepended to the history, also when the connection
\* was connected before.
C1_Connect ==
  [][ req'.op = "connect" =>
        LET sid == Field(req'.body, "serverId")
        IN  IF ~ HasId(servers, sid)
            THEN /\ resp'.status = 404
                 /\ connection' = connection
                 /\ history' = history
            ELSE \E i \in 1..Len(servers) :
                   /\ IsFirst(servers, sid, i)
                   /\ resp'.status = 200
                   /\ resp'.data = connection'
                   /\ connection'.connected = TRUE
                   /\ connection'.serverId = servers[i].id
                   /\ connection'.serverId = sid
                   /\ connection'.serverName = Field(servers[i], "name")
                   /\ connection'.stats = ZeroStats
                   /\ Prepended(history, history')
                   /\ history'[1].type = "connect"
                   /\ history'[1].server = Field(servers[i], "name")
    ]_vars

\* C1 witness: a connect issued while already connected to another name
\* has replaced the record; the history holds two connect entries.
C1_Witness ==
  /\ req.op = "connect"
  /\ resp.status = 200
  /\ Len(history) = 2
  /\ history[1].type = "connect"
  /\ history[2].type = "connect"
  /\ history[1].server # history[2].server
  /\ connection.serverName = history[1].server

\* C2: a disconnect issued while connected resets the connection to the
\* disconnected record and prepends one 'disconnect' entry naming
\* connection.serverName, the name recorded at connect time, which no
\* other route changes; when the history was not cleared since the connect,
\* the matching 'connect' entry follows it.
C2_Disconnect ==
  [][ /\ (req'.op = "disconnect" /\ connection.connected) =>
           /\ resp'.status = 200
           /\ connection'.connected = FALSE
           /\ connection'.serverId = Null
           /\ connection'.connectedAt = Null
           /\ connection'.stats = ZeroStats
           /\ Prepended(history, history')
           /\ history'[1].type = "disconnect"
           /\ history'[1].server = connection.serverName
           /\ history # <<>> =>
                /\ history'[2].type = "connect"
                /\ history'[2].server = history'[1].server
      /\ req'.op \notin {"connect", "disconnect"} => connection' = connection
    ]_vars

\* C2 witness: a disconnect entry sits before its connect entry, and the
\* server it names no longer exists under that name.
C2_Witness ==
  /\ req.op = "disconnect"
  /\ Len(history) = 2
  /\ history[1].type = "disconnect"
  /\ history[2].type = "connect"
  /\ history[1].server = "US Server 1"
  /\ \A i \in 1..Len(servers) : Field(servers[i], "name") # "US Server 1"
  /\ connection.connected = FALSE

C4_Put ==
  [][ req'.op = "putServer" =>
        LET id == req'.id
            body == req'.body
        IN  /\ rules' = rules
            /\ profiles' = profiles
            /\ connection' = connection
            /\ history' = history
            /\ IF ~ HasId(servers, id)
               THEN resp'.status = 404 /\ servers' = servers
               ELSE \E i \in 1..Len(servers) :
                      /\ IsFirst(servers, id, i)
                      /\ resp'.status = 200
                      /\ resp'.data = servers'[i]
                      /\ Len(servers') = Len(servers)
                      /\ \A j \in 1..Len(servers) : j # i => servers'[j] = servers[j]
                      /\ DOMAIN servers'[i] = (DOMAIN servers[i]) \cup (DOMAIN body)
                      /\ \A f \in DOMAIN body : servers'[i][f] = body[f]
                      /\ \A f \in (DOMAIN servers[i]) \ (DOMAIN body) :
                           servers'[i][f] = servers[i][f]
    ]_vars

\* C4 witness: a PUT renamed server "1" and kept its other fields, while a
\* connection to it under the old name stands.
C4_Witness ==
  /\ req.op = "putServer"
  /\ resp.status = 200
  /\ resp.data.name = "X"
  /\ resp.data.host = "us1.vpn.com"
  /\ connection.connected = TRUE
  /\ connection.serverName = "US Server 1"
  /\ history # <<>>

\* The records of arr whose id is not the given one, in order.
Others(arr, id) ==
  LET keep == {i \in 1..Len(arr) : arr[i].id # id}
  IN  [k \in 1..Cardinality(keep) |->
         arr[CHOOSE i \in keep : Cardinality({j \in keep : j <= i}) = k]]

\* C5: DELETE of a server or a rule answers success; no record with the id
\* remains, every other record stays, in the same order (so an id no record
\* has leaves the collection as it is), and deleting again changes nothing.
C5_Delete ==
  [][ /\ req'.op = "deleteServer" =>
           /\ resp'.status = 200
           /\ ~ HasId(servers', req'.id)
           /\ servers' = Others(servers, req'.id)
           /\ ~ HasId(servers, req'.id) => servers' = servers
           /\ FilterOut(servers', req'.id) = servers'
           /\ rules' = rules
      /\ req'.op = "deleteRule" =>
           /\ resp'.status = 200
           /\ ~ HasId(rules', req'.id)
           /\ rules' = Others(rules, req'.id)
           /\ ~ HasId(rules, req'.id) => rules' = rules
           /\ FilterOut(rules', req'.id) = rules'
           /\ servers' = servers
    ]_vars

\* C5 witness: a DELETE removed both servers with id "2" and kept the
\* others in order, after a rule was deleted and a rule created.
C5_Witness ==
  /\ req.op = "deleteServer"
  /\ req.id = "2"
  /\ Len(servers) = 2
  /\ servers[1].id = "3"
  /\ servers[2].id = "4"
  /\ Len(rules) = 2
  /\ rules[1].id = "2"

\* C6 as stated: GET /api/history?limit=N answers exactly the first
\* min(N, length) entries for every integer N, and the first
\* min(20, length) without a limit.
C6_Original ==
  req.op = "getHistory" =>
    LET n == IF req.limit = <<>> THEN DefaultLimit ELSE req.limit[1]
    IN  /\ resp.data = SubSeq(history, 1, Min(n, Len(history)))
        /\ Len(resp.data) <= Max(n, 0)

\* C7 as stated: right after a POST, the id of the created record differs
\* from the id of every other record of its collection.
C7_Original ==
  /\ req.op = "postServer" =>
       \A j \in 1..(Len(servers) - 1) : servers[j].id # servers[Len(servers)].id
  /\ req.op = "postRule" =>
       \A j \in 1..(Len(rules) - 1) : rules[j].id # rules[Len(rules)].id

\* C8: a toggle on an id some rule has negates 'enabled' of the first such
\* rule and changes nothing else, and a second toggle of the same id gives
\* back the rules as they were; on an id no rule has it answers 404 and
\* changes no rule.
C8_Toggle ==
  [][ req'.op = "toggleRule" =>
        LET id == req'.id
        IN  IF ~ HasId(rules, id)
            THEN resp'.status = 404 /\ rules' = rules
            ELSE \E i \in 1..Len(rules) :
                   /\ IsFirst(rules, id, i)
                   /\ resp'.status = 200
                   /\ resp'.data = rules'[i]
                   /\ Len(rules') = Len(rules)
                   /\ \A j \in 1..Len(rules) : j # i => rules'[j] = rules[j]
                   /\ DOMAIN rules'[i] = DOMAIN rules[i]
                   /\ rules'[i].enabled = ~ rules[i].enabled
                   /\ \A f \in (DOMAIN rules[i]) \ {"enabled"} :
                        rules'[i][f] = rules[i][f]
                   /\ ToggleRules(rules', id) = rules
    ]_vars

\* C8 witness: a toggle of id "1" has disabled the first rule with that id
\* and left a second rule with the same id as it was.
C8_Witness ==
  /\ req.op = "toggleRule"
  /\ req.id = "1"
  /\ resp.status = 200
  /\ Len(rules) = 2
  /\ rules[1].id = "1"
  /\ rules[2].id = "1"
  /\ rules[1].enabled = FALSE
  /\ rules[2].enabled = TRUE

\* C9: every request but DELETE /api/history leaves the history as it is or
\* prepends one entry; only a connect answered 200 and a disconnect issued
\* while connected prepend; a disconnect while disconnected prepends nothing.
C9_AppendOnly ==
  [][ req'.op # "clearHistory" =>
        /\ history' = history \/ Prepended(history, history')
        /\ history' # history =>
             \/ req'.op = "connect" /\ resp'.status = 200
             \/ req'.op = "disconnect" /\ connection.connected
        /\ (req'.op = "connect" /\ resp'.status = 200) => history' # history
        /\ (req'.op = "disconnect" /\ connection.connected) => history' # history
    ]_vars

\* C9 witness: a disconnect issued while disconnected, after a full
\* connect/disconnect cycle, left the two entries in place.
C9_Witness ==
  /\ req.op = "disconnect"
  /\ connection.connected = FALSE
  /\ Len(history) = 2
  /\ history[1].type = "disconnect"
  /\ history[2].type = "connect"
  /\ resp.status = 200
  /\ Len(servers) = 3

\* C10: whenever the history is not empty, its first entry agrees with the
\* connection: connected means a 'connect' entry naming
\* connection.serverName, disconnected means a 'disconnect' entry.
C10_HeadAgrees ==
  history # <<>> =>
    IF connection.connected
    THEN history[1].type = "connect" /\ history[1].server = connection.serverName
    ELSE history[1].type = "disconnect"

\* C10 witness: connected to a server that has since been deleted, after a
\* clear and a new connect.
C10_Witness ==
  /\ connection.connected = TRUE
  /\ history # <<>>
  /\ req.op = "deleteServer"
  /\ ~ HasId(servers, connection.serverId)

====
